---- MODULE Spec2Model ----
(***************************************************************************)
(* The tabletop server of src/server.py: the per-connection handler        *)
(* coroutines, the command processor handle_command, the sequencer, the    *)
(* dedup map, GameState and the broadcaster with its connection registry.  *)
(*                                                                         *)
(* Strings are sequences of atoms, so that str.strip() and the f-string    *)
(* dedup key are computed rather than assumed.  A decoded JSON value is a  *)
(* record [t, v] carrying its Python type.  The registry is a Python dict: *)
(* an insertion-ordered array of entries in which a removed entry leaves   *)
(* a hole, as CPython keeps it; a broadcast walks it with a dict iterator. *)
(* Every `await ws.send(...)` of a broadcast is a point where the event    *)
(* loop may run another handler.                                           *)
(***************************************************************************)
EXTENDS Integers, Sequences, FiniteSets, TLC

VARIABLES run, seq, dedup, players, tokens, clients,
          pc, alive, registered, bev, it, dead, sent,
          accepted, bsnap, last

vars == <<run, seq, dedup, players, tokens, clients,
          pc, alive, registered, bev, it, dead, sent,
          accepted, bsnap, last>>

-----------------------------------------------------------------------------
(* Bounds of the model *)

MaxSeq == 2
MaxErrors == 1

(* The "order" run needs three accepted commands *)
SeqLimit(r) == IF r = "order" THEN MaxSeq + 1 ELSE MaxSeq

(* Program constants *)

DefaultHp == 20
MinSides == 2
MaxSides_off == 10000 + 1
MaxSides == 10000

-----------------------------------------------------------------------------
(* Values *)

Conns == {"w1", "w2"}
NoWs == "-"
NoCid == <<>>

JStr(s) == [t |-> "str", v |-> s]
JInt(n) == [t |-> "int", v |-> n]
None == [t |-> "none", v |-> 0]
Missing == [t |-> "missing", v |-> 0]
JObj(fields) == [t |-> "obj", v |-> fields]

S(a) == JStr(<<a>>)

Whitespace == {" "}

Max(a, b) == IF a >= b THEN a ELSE b

Range(s) == {s[i] : i \in 1..Len(s)}

RECURSIVE lstrip(_)
lstrip(s) ==
    IF s = <<>> THEN s
    ELSE IF Head(s) \in Whitespace THEN lstrip(Tail(s)) ELSE s

RECURSIVE rstrip(_)
rstrip(s) ==
    IF s = <<>> THEN s
    ELSE IF s[Len(s)] \in Whitespace THEN rstrip(SubSeq(s, 1, Len(s) - 1)) ELSE s

strip(s) == rstrip(lstrip(s))

-----------------------------------------------------------------------------
(* Inputs: the frames a client may put on the wire *)

NoFields ==
    [name |-> None, text |-> None, sides |-> None, token_id |-> None,
     x |-> None, y |-> None, target_id |-> None, delta |-> None]

Join(n) == JObj([NoFields EXCEPT !.name = n])
Chat(x) == JObj([NoFields EXCEPT !.text = x])
Roll(n) == JObj([NoFields EXCEPT !.sides = n])
Move(k, px, py) == JObj([NoFields EXCEPT !.token_id = k, !.x = px, !.y = py])
SetHp(k, d) == JObj([NoFields EXCEPT !.target_id = k, !.delta = d])

JoinGood == {Join(JStr(<<" ", "x", " ">>)), Join(JStr(<<"y">>))}
JoinBad == {Join(JStr(<<" ">>)), Join(JStr(<<>>)), Join(None)}

ChatGood == {Chat(JStr(<<" ", "h">>))}
ChatBad == {Chat(JStr(<<" ", " ">>)), Chat(JInt(3))}

RollGood == {Roll(JInt(2)), Roll(JInt(10000))}
RollBad == {Roll(JInt(1)), Roll(JInt(10001)), Roll(S("6"))}

MoveGood ==
    {Move(S("t"), JInt(0), JInt(1)), Move(S("t"), JInt(1), JInt(0)),
     Move(S("u"), JInt(0), JInt(1))}
MoveBad ==
    {Move(JStr(<<>>), JInt(0), JInt(0)), Move(S("t"), JInt(1), None),
     Move(S("t"), S("1"), JInt(1))}

HpGood == {SetHp(JStr(k), JInt(d)) : k \in {<<"a">>, <<"z">>}, d \in {-25, 7}}
HpBad == {SetHp(JStr(<<>>), JInt(7)), SetHp(S("z"), None), SetHp(None, JInt(7))}

Envelope(c, e, k, p) ==
    [isdict |-> TRUE, type |-> S("command"), client_id |-> JStr(c),
     event_id |-> JStr(e), command |-> S(k), payload |-> p]

(* The (client_id, event_id) pairs in use *)
Pairs ==
    {<<<<"a">>, <<"c">>>>, <<<<"a", ":", "b">>, <<"c">>>>, <<<<"a">>, <<"d">>>>,
     <<<<"a">>, <<"b", ":", "c">>>>}

Enveloped(pairs, k, ps) == {Envelope(pr[1], pr[2], k, p) : pr \in pairs, p \in ps}

(* Commands whose payload is in the domain of their command *)
GoodCommands ==
    Enveloped(Pairs, "JOIN", JoinGood) \cup Enveloped(Pairs, "CHAT", ChatGood)
    \cup Enveloped(Pairs, "ROLL_DICE", RollGood)
    \cup Enveloped(Pairs, "MOVE_TOKEN", MoveGood)
    \cup Enveloped(Pairs, "SET_HP", HpGood)

(* Commands with a payload field out of domain, or an unrecognized name *)
BadCommands ==
    Enveloped(Pairs, "JOIN", JoinBad) \cup Enveloped(Pairs, "CHAT", ChatBad)
    \cup Enveloped(Pairs, "ROLL_DICE", RollBad)
    \cup Enveloped(Pairs, "MOVE_TOKEN", MoveBad)
    \cup Enveloped(Pairs, "SET_HP", HpBad)
    \cup Enveloped(Pairs, "FLY", {JObj(NoFields)})

GoodEnvelope == Envelope(<<"a">>, <<"c">>, "CHAT", Chat(S("h")))

(* Decoded JSON values that are not a well-formed command envelope *)
BadEnvelopes ==
    {[GoodEnvelope EXCEPT !.isdict = FALSE]}
    \cup {[GoodEnvelope EXCEPT !.type = x] : x \in {None, S("event")}}
    \cup {[GoodEnvelope EXCEPT !.client_id = x] : x \in {None, JStr(<<>>), JInt(7)}}
    \cup {[GoodEnvelope EXCEPT !.event_id = x] : x \in {None, JStr(<<>>), JInt(7)}}
    \cup {[GoodEnvelope EXCEPT !.command = x] : x \in {None, JStr(<<>>), JInt(7)}}
    \cup {[GoodEnvelope EXCEPT !.payload = x] : x \in {Missing, None, JInt(7)}}

(* A raw frame: undecodable bytes, or the text of a JSON value *)
Raw(ok, obj) == [decodable |-> ok, obj |-> obj]

Undecodable == Raw(FALSE, GoodEnvelope)

BadRaws == {Undecodable} \cup {Raw(TRUE, o) : o \in BadEnvelopes}
GoodRaws == {Raw(TRUE, o) : o \in GoodCommands \cup BadCommands}

TwoClients == {<<<<"a">>, <<"c">>>>, <<<<"a", ":", "b">>, <<"c">>>>}
OneClient == {<<<<"a">>, <<"c">>>>, <<<<"a">>, <<"d">>>>}
First == {<<<<"a">>, <<"c">>>>}
Second == {<<<<"a", ":", "b">>, <<"c">>>>}
Colliding == {<<<<"a", ":", "b">>, <<"c">>>>, <<<<"a">>, <<"b", ":", "c">>>>}

(* The frames the clients of one run send.  Each specification fixes the   *)
(* run: "net" exercises the registry and the broadcaster with two client   *)
(* identifiers; "order" overlapping broadcasts of three commands, each     *)
(* connection under a client identifier of its own, as client.py does;     *)
(* "game" the game state; "reject" every command that fails its own        *)
(* validation, sent by the first connection; "envelope" every frame that   *)
(* is no command envelope; "board" all five commands of one client on two  *)
(* connections, the first with those that write a player or a token;       *)
(* "dice" ROLL_DICE at the limits of payload.sides; "keys" two client and  *)
(* event identifiers that contain the ':' of the dedup key.                *)
NetFrames ==
    {Undecodable}
    \cup {Raw(TRUE, o) : o \in Enveloped(TwoClients, "SET_HP", {SetHp(S("z"), JInt(7))})
                               \cup Enveloped(TwoClients, "JOIN", {Join(JStr(<<" ">>))})}

OrderFramesFirst ==
    {Undecodable} \cup {Raw(TRUE, o) : o \in Enveloped(OneClient, "CHAT", ChatGood)}

OrderFramesSecond ==
    {Undecodable} \cup {Raw(TRUE, o) : o \in Enveloped(Second, "CHAT", ChatGood)}

GameFrames ==
    {Undecodable}
    \cup {Raw(TRUE, o) : o \in Enveloped(OneClient, "JOIN", {Join(JStr(<<" ", "x", " ">>))})
                               \cup Enveloped(OneClient, "SET_HP", HpGood)}

RejectFramesFirst ==
    {Undecodable}
    \cup {Raw(TRUE, o) : o \in Enveloped(First, "JOIN", JoinBad \cup {Join(JStr(<<"y">>))})
                               \cup Enveloped(First, "CHAT", ChatBad)
                               \cup Enveloped(First, "ROLL_DICE", RollBad)
                               \cup Enveloped(First, "MOVE_TOKEN", MoveBad)
                               \cup Enveloped(First, "SET_HP", HpBad)
                               \cup Enveloped(First, "FLY", {JObj(NoFields)})}

RejectFramesSecond ==
    {Undecodable} \cup {Raw(TRUE, o) : o \in Enveloped(Second, "CHAT", ChatGood)}

EnvelopeFrames ==
    BadRaws \cup {Raw(TRUE, o) : o \in Enveloped(First, "JOIN", {Join(JStr(<<"y">>))})}

BoardFramesFirst ==
    {Undecodable}
    \cup {Raw(TRUE, o) : o \in Enveloped(OneClient, "JOIN", {Join(JStr(<<"y">>))})
                               \cup Enveloped(OneClient, "MOVE_TOKEN",
                                       {Move(S("t"), JInt(0), JInt(1)),
                                        Move(S("u"), JInt(0), JInt(1))})
                               \cup Enveloped(OneClient, "SET_HP",
                                       {SetHp(S("a"), JInt(-25)), SetHp(S("z"), JInt(7))})}

BoardFramesSecond ==
    {Undecodable}
    \cup {Raw(TRUE, o) : o \in Enveloped(First, "JOIN", {Join(JStr(<<" ", "x", " ">>))})
                               \cup Enveloped(First, "CHAT", ChatGood)
                               \cup Enveloped(First, "ROLL_DICE", {Roll(JInt(2))})
                               \cup Enveloped(First, "MOVE_TOKEN",
                                       {Move(S("t"), JInt(1), JInt(0)),
                                        Move(S("t"), JInt(1), None)})}

DiceFramesFirst ==
    {Undecodable}
    \cup {Raw(TRUE, o) : o \in Enveloped(OneClient, "ROLL_DICE", RollGood)
                               \cup Enveloped(First, "ROLL_DICE", RollBad)}

DiceFramesSecond ==
    {Undecodable}
    \cup {Raw(TRUE, o) : o \in Enveloped(First, "ROLL_DICE", {Roll(JInt(2))})}

KeysFrames ==
    {Undecodable} \cup {Raw(TRUE, o) : o \in Enveloped(Colliding, "CHAT", ChatGood)}

Frames(r, w) ==
    CASE r = "net" -> NetFrames
      [] r = "order" -> IF w = "w1" THEN OrderFramesFirst ELSE OrderFramesSecond
      [] r = "game" -> GameFrames
      [] r = "reject" -> IF w = "w1" THEN RejectFramesFirst ELSE RejectFramesSecond
      [] r = "envelope" -> EnvelopeFrames
      [] r = "board" -> IF w = "w1" THEN BoardFramesFirst ELSE BoardFramesSecond
      [] r = "dice" -> IF w = "w1" THEN DiceFramesFirst ELSE DiceFramesSecond
      [] r = "keys" -> KeysFrames

-----------------------------------------------------------------------------
(* Validator: TabletopServer.validate_command *)

NoError == <<>>

IsNonEmptyStr(j) == j.t = "str" /\ j.v # <<>>

validate_command_notype(obj) ==
    IF ~obj.isdict THEN <<"Message must be a JSON object.">>
    ELSE IF ~IsNonEmptyStr(obj.client_id) THEN <<"Missing/invalid client_id.">>
    ELSE IF ~IsNonEmptyStr(obj.event_id) THEN <<"Missing/invalid event_id.">>
    ELSE IF ~IsNonEmptyStr(obj.command) THEN <<"Missing/invalid command.">>
    ELSE IF obj.payload.t # "obj" THEN <<"Missing/invalid payload (must be object).">>
    ELSE NoError

validate_command(obj) ==
    IF ~obj.isdict THEN <<"Message must be a JSON object.">>
    ELSE IF obj.type # S("command") THEN <<"Expected type='command'.">>
    ELSE IF ~IsNonEmptyStr(obj.client_id) THEN <<"Missing/invalid client_id.">>
    ELSE IF ~IsNonEmptyStr(obj.event_id) THEN <<"Missing/invalid event_id.">>
    ELSE IF ~IsNonEmptyStr(obj.command) THEN <<"Missing/invalid command.">>
    ELSE IF obj.payload.t # "obj" THEN <<"Missing/invalid payload (must be object).">>
    ELSE NoError

make_error(message) == [type |-> "error", message |-> message]

(* json.loads followed by validate_command, as the handler's loop runs them *)
DecodeError(raw) ==
    IF ~raw.decodable THEN <<"Invalid JSON.">> ELSE validate_command(raw.obj)

-----------------------------------------------------------------------------
(* Sequencer and deduplicator *)

next_seq_stuck(s) == IF s = 0 THEN 1 ELSE s

next_seq(s) == s + 1

dedup_key(client_id, event_id) == client_id \o <<":">> \o event_id

IsDuplicate_never(d, key) == FALSE

IsDuplicate(d, key) == key \in DOMAIN d

record_nothing(d, key, s) == d

(* self.dedup[dedup_key] = seq *)
record(d, key, s) == [x \in DOMAIN d \cup {key} |-> IF x = key THEN s ELSE d[x]]

-----------------------------------------------------------------------------
(* Command processor: the branches of TabletopServer.handle_command *)

IsBlankOrNotStr_nostrip(j) == j.t # "str" \/ j.v = <<>>

IsBlankOrNotStr(j) == j.t # "str" \/ strip(j.v) = <<>>

(* The per-command validation: the error sent back, or NoError *)
CommandError(command, p) ==
    CASE command = <<"JOIN">> ->
            IF IsBlankOrNotStr(p.name)
            THEN <<"JOIN requires payload.name as non-empty string.">> ELSE NoError
      [] command = <<"CHAT">> ->
            IF IsBlankOrNotStr(p.text)
            THEN <<"CHAT requires payload.text as non-empty string.">> ELSE NoError
      [] command = <<"ROLL_DICE">> ->
            IF p.sides.t # "int" \/ p.sides.v < MinSides \/ p.sides.v > MaxSides
            THEN <<"ROLL_DICE requires payload.sides as int >=2.">> ELSE NoError
      [] command = <<"MOVE_TOKEN">> ->
            IF ~IsNonEmptyStr(p.token_id)
            THEN <<"MOVE_TOKEN requires payload.token_id as non-empty string.">>
            ELSE IF p.x.t # "int" \/ p.y.t # "int"
            THEN <<"MOVE_TOKEN requires payload.x and payload.y as integers.">>
            ELSE NoError
      [] command = <<"SET_HP">> ->
            IF ~IsNonEmptyStr(p.target_id)
            THEN <<"SET_HP requires payload.target_id as non-empty string.">>
            ELSE IF p.delta.t # "int"
            THEN <<"SET_HP requires payload.delta as integer.">>
            ELSE NoError
      [] OTHER -> <<"Unknown command: ">> \o command

Player(client_id, name, hp) == [client_id |-> client_id, name |-> name, hp |-> hp]

Put(f, k, v) == [x \in DOMAIN f \cup {k} |-> IF x = k THEN v ELSE f[x]]

new_hp_unclamped(hp, delta) == hp + delta

new_hp_capped(hp, delta) == IF hp + delta > DefaultHp THEN DefaultHp ELSE Max(0, hp + delta)

new_hp(hp, delta) == Max(0, hp + delta)

ApplyPlayers_rejoin(ps, client_id, command, p) ==
    CASE command = <<"JOIN">> ->
            Put(ps, client_id, Player(client_id, strip(p.name.v), DefaultHp))
      [] command = <<"SET_HP">> ->
            LET t == p.target_id.v
                q == IF t \notin DOMAIN ps THEN Put(ps, t, Player(t, t, DefaultHp)) ELSE ps
            IN  [q EXCEPT ![t].hp = new_hp(q[t].hp, p.delta.v)]
      [] OTHER -> ps

ApplyPlayers_fresh(ps, client_id, command, p) ==
    CASE command = <<"JOIN">> ->
            IF client_id \notin DOMAIN ps
            THEN Put(ps, client_id, Player(client_id, strip(p.name.v), DefaultHp))
            ELSE [ps EXCEPT ![client_id].name = strip(p.name.v)]
      [] command = <<"SET_HP">> ->
            LET t == p.target_id.v
                q == Put(ps, t, Player(t, t, DefaultHp))
            IN  [q EXCEPT ![t].hp = new_hp(q[t].hp, p.delta.v)]
      [] OTHER -> ps

(* GameState.players after a command that passed its validation *)
ApplyPlayers(ps, client_id, command, p) ==
    CASE command = <<"JOIN">> ->
            IF client_id \notin DOMAIN ps
            THEN Put(ps, client_id, Player(client_id, strip(p.name.v), DefaultHp))
            ELSE [ps EXCEPT ![client_id].name = strip(p.name.v)]
      [] command = <<"SET_HP">> ->
            LET t == p.target_id.v
                q == IF t \notin DOMAIN ps THEN Put(ps, t, Player(t, t, DefaultHp)) ELSE ps
            IN  [q EXCEPT ![t].hp = new_hp(q[t].hp, p.delta.v)]
      [] OTHER -> ps

ApplyTokens_merge(ts, command, p) ==
    IF command = <<"MOVE_TOKEN">>
    THEN IF p.token_id.v \in DOMAIN ts
         THEN [ts EXCEPT ![p.token_id.v].x = p.x.v]
         ELSE Put(ts, p.token_id.v, [x |-> p.x.v, y |-> p.y.v])
    ELSE ts

(* GameState.tokens after a command that passed its validation *)
ApplyTokens(ts, command, p) ==
    IF command = <<"MOVE_TOKEN">>
    THEN Put(ts, p.token_id.v, [x |-> p.x.v, y |-> p.y.v])
    ELSE ts

(* The payload of the event, built from the players as just updated *)
EventPayload(ps, client_id, command, p, result) ==
    CASE command = <<"JOIN">> ->
            [client_id |-> client_id, name |-> ps[client_id].name]
      [] command = <<"CHAT">> ->
            [client_id |-> client_id, text |-> p.text.v]
      [] command = <<"ROLL_DICE">> ->
            [client_id |-> client_id, sides |-> p.sides.v, result |-> result]
      [] command = <<"MOVE_TOKEN">> ->
            [token_id |-> p.token_id.v, x |-> p.x.v, y |-> p.y.v]
      [] command = <<"SET_HP">> ->
            [target_id |-> p.target_id.v, delta |-> p.delta.v,
             new_hp |-> ps[p.target_id.v].hp]

MakeEvent(s, event_id, command, payload) ==
    [type |-> "event", seq |-> s, event_id |-> event_id,
     event_type |-> command, payload |-> payload]

(* The values the random generator is given to return in the model: the   *)
(* ends of both ranges a client may ask for, and their neighbours          *)
RngPool == {0, 1, 2, 10000, 10001}

(* random.randint(1, sides): any value r with 1 <= r <= sides *)
Results(command, p) ==
    IF command = <<"ROLL_DICE">>
    THEN {r \in RngPool : 1 <= r /\ r <= p.sides.v}
    ELSE {0}

-----------------------------------------------------------------------------
(* Connection registry: the dict self.clients, client_id -> ws.  An entry    *)
(* keeps its place in the array; pop leaves a hole and a new key is appended *)

Dummy == [cid |-> NoCid, ws |-> NoWs]

dict_index(d, cid) ==
    IF \E i \in 1..Len(d) : d[i].cid = cid
    THEN CHOOSE i \in 1..Len(d) : d[i].cid = cid
    ELSE 0

dict_len(d) == Cardinality({i \in 1..Len(d) : d[i] # Dummy})

dict_get(d, cid) == IF dict_index(d, cid) = 0 THEN NoWs ELSE d[dict_index(d, cid)].ws

dict_set(d, cid, ws) ==
    IF dict_index(d, cid) = 0
    THEN Append(d, [cid |-> cid, ws |-> ws])
    ELSE [d EXCEPT ![dict_index(d, cid)].ws = ws]

dict_pop(d, cid) ==
    IF dict_index(d, cid) = 0 THEN d ELSE [d EXCEPT ![dict_index(d, cid)] = Dummy]

dict_items(d) == {d[i] : i \in {j \in 1..Len(d) : d[j] # Dummy}}

(* The iterator of `for cid, ws in self.clients.items()` *)
NoIter == [pos |-> 0, used |-> 0, len |-> 0]

dict_iter(d) == [pos |-> 0, used |-> dict_len(d), len |-> dict_len(d)]

iter_index(d, itr) ==
    IF \E i \in (itr.pos + 1)..Len(d) : d[i] # Dummy
    THEN CHOOSE i \in (itr.pos + 1)..Len(d) :
            d[i] # Dummy /\ \A j \in (itr.pos + 1)..(i - 1) : d[j] = Dummy
    ELSE 0

(* RuntimeError: dictionary changed size / keys changed during iteration *)
iter_raises(d, itr) ==
    \/ itr.used # dict_len(d)
    \/ iter_index(d, itr) # 0 /\ itr.len = 0

(* The finally block of handler: unregister only the current connection *)
IsCurrent_always(d, cid, ws) == TRUE

IsCurrent(d, cid, ws) == dict_get(d, cid) = ws

unregister_if_current(d, cid, ws) ==
    IF cid # NoCid /\ IsCurrent(d, cid, ws) THEN dict_pop(d, cid) ELSE d

(* The pruning loop of broadcast: pop every client_id of the dead list *)
RECURSIVE prune(_, _)
prune(d, deadlist) ==
    IF deadlist = <<>> THEN d ELSE prune(dict_pop(d, Head(deadlist)), Tail(deadlist))

-----------------------------------------------------------------------------
(* State *)

NoEvent == [type |-> "none"]
NoLast == [conn |-> NoWs, class |-> "none", pair |-> <<>>]

(* Which kind of frame a handler has just read; frames are drawn from the  *)
(* input sets above, and the class names the set, not the server's verdict *)
InputClass(raw) ==
    IF raw \in BadRaws THEN "badenv"
    ELSE IF raw.obj \in BadCommands THEN "badcmd" ELSE "good"

InputPair(raw) ==
    IF raw \in BadRaws THEN <<>> ELSE <<raw.obj.client_id.v, raw.obj.event_id.v>>

Errors(out) == {i \in 1..Len(out) : out[i].type = "error"}

(* The number of errors the server has answered so far, on all connections *)
ErrorsSent(out) == Cardinality(UNION {{<<w, i>> : i \in Errors(out[w])} : w \in Conns})

Start(r) ==
    /\ run = r
    /\ seq = 0
    /\ dedup = <<>>
    /\ players = <<>>
    /\ tokens = <<>>
    /\ clients = <<>>
    /\ pc = [w \in Conns |-> "new"]
    /\ alive = [w \in Conns |-> FALSE]
    /\ registered = [w \in Conns |-> NoCid]
    /\ bev = [w \in Conns |-> NoEvent]
    /\ it = [w \in Conns |-> NoIter]
    /\ dead = [w \in Conns |-> <<>>]
    /\ sent = [w \in Conns |-> <<>>]
    /\ accepted = <<>>
    /\ bsnap = [w \in Conns |-> {}]
    /\ last = NoLast

Init == Start("net")
InitOrder == Start("order")
InitGame == Start("game")
InitReject == Start("reject")
InitEnvelope == Start("envelope")
InitBoard == Start("board")
InitDice == Start("dice")
InitKeys == Start("keys")

-----------------------------------------------------------------------------
(* broadcast: one turn of its loop, up to the next `await ws.send(data)`.   *)
(* d is the registry, itr the dict iterator, dl the dead list so far.  The  *)
(* turn ends the loop and prunes, or sends to the next entry and suspends,  *)
(* or the iterator raises and the exception leaves handler through its      *)
(* finally block, after which the server closes the connection.             *)

Iterate(w, d, itr, ev, dl, rcid, snap) ==
    IF iter_raises(d, itr)
    THEN /\ clients' = unregister_if_current(d, rcid, w)
         /\ pc' = [pc EXCEPT ![w] = "done"]
         /\ alive' = [alive EXCEPT ![w] = FALSE]
         /\ it' = [it EXCEPT ![w] = NoIter]
         /\ dead' = [dead EXCEPT ![w] = <<>>]
         /\ bev' = [bev EXCEPT ![w] = NoEvent]
         /\ bsnap' = [bsnap EXCEPT ![w] = {}]
         /\ sent' = sent
    ELSE IF iter_index(d, itr) = 0
    THEN /\ clients' = prune(d, dl)
         /\ pc' = [pc EXCEPT ![w] = "recv"]
         /\ alive' = alive
         /\ it' = [it EXCEPT ![w] = NoIter]
         /\ dead' = [dead EXCEPT ![w] = <<>>]
         /\ bev' = [bev EXCEPT ![w] = NoEvent]
         /\ bsnap' = [bsnap EXCEPT ![w] = {}]
         /\ sent' = sent
    ELSE LET i == iter_index(d, itr)
             e == d[i]
         IN  /\ clients' = d
             /\ pc' = [pc EXCEPT ![w] = "bcast"]
             /\ alive' = alive
             /\ it' = [it EXCEPT ![w] = [pos |-> i, used |-> itr.used, len |-> itr.len - 1]]
             /\ bev' = [bev EXCEPT ![w] = ev]
             /\ bsnap' = [bsnap EXCEPT ![w] = snap]
             /\ IF alive[e.ws]
                THEN /\ sent' = [sent EXCEPT ![e.ws] = Append(@, ev)]
                     /\ dead' = [dead EXCEPT ![w] = dl]
                ELSE /\ sent' = sent
                     /\ dead' = [dead EXCEPT ![w] = Append(dl, e.cid)]

-----------------------------------------------------------------------------
(* Actions *)

(* websockets.serve starts handler(ws) for a new connection *)
Connect(w) ==
    /\ pc[w] = "new"
    /\ pc' = [pc EXCEPT ![w] = "recv"]
    /\ alive' = [alive EXCEPT ![w] = TRUE]
    /\ last' = NoLast
    /\ UNCHANGED <<run, seq, dedup, players, tokens, clients, registered, bev, it,
                   dead, sent, accepted, bsnap>>

(* The transport of a connection closes; sends to it raise from now on *)
Die(w) ==
    /\ pc[w] \in {"recv", "bcast"}
    /\ alive[w]
    /\ alive' = [alive EXCEPT ![w] = FALSE]
    /\ last' = NoLast
    /\ UNCHANGED <<run, seq, dedup, players, tokens, clients, pc, registered, bev, it,
                   dead, sent, accepted, bsnap>>

(* `async for raw in ws` ends on the closed connection: the finally block *)
Close(w) ==
    /\ pc[w] = "recv"
    /\ ~alive[w]
    /\ clients' = unregister_if_current(clients, registered[w], w)
    /\ pc' = [pc EXCEPT ![w] = "done"]
    /\ last' = [conn |-> w, class |-> "close", pair |-> <<>>]
    /\ UNCHANGED <<run, seq, dedup, players, tokens, alive, registered, bev, it,
                   dead, sent, accepted, bsnap>>

(* handler reads a frame that does not decode or fails validate_command: *)
(* the error goes out on ws itself and the loop continues                *)
RecvInvalid(w, raw) ==
    /\ pc[w] = "recv"
    /\ alive[w]
    /\ DecodeError(raw) # NoError
    /\ ErrorsSent(sent) < MaxErrors
    /\ sent' = [sent EXCEPT ![w] = Append(@, make_error(DecodeError(raw)))]
    /\ last' = [conn |-> w, class |-> InputClass(raw), pair |-> InputPair(raw)]
    /\ UNCHANGED <<run, seq, dedup, players, tokens, clients, pc, alive, registered,
                   bev, it, dead, accepted, bsnap>>

(* handler reads a valid envelope: registers ws under its client_id and  *)
(* runs handle_command up to its first await                             *)
RecvCommand(w, raw) ==
    /\ pc[w] = "recv"
    /\ alive[w]
    /\ DecodeError(raw) = NoError
    /\ LET client_id == raw.obj.client_id.v
           event_id == raw.obj.event_id.v
           command == raw.obj.command.v
           payload == raw.obj.payload.v
           reg == dict_set(clients, client_id, w)
           key == dedup_key(client_id, event_id)
           err == CommandError(command, payload)
       IN  /\ run' = run
           /\ registered' = [registered EXCEPT ![w] = client_id]
           /\ last' = [conn |-> w, class |-> InputClass(raw), pair |-> InputPair(raw)]
           /\ IF IsDuplicate(dedup, key)
              THEN /\ clients' = reg
                   /\ UNCHANGED <<seq, dedup, players, tokens, pc, alive, bev, it,
                                  dead, sent, accepted, bsnap>>
              ELSE /\ seq < SeqLimit(run)
                   /\ seq' = next_seq(seq)
                   /\ IF err # NoError
                      THEN /\ clients' = reg
                           /\ sent' = IF dict_get(reg, client_id) # NoWs
                                         /\ alive[dict_get(reg, client_id)]
                                      THEN [sent EXCEPT ![dict_get(reg, client_id)] =
                                                Append(@, make_error(err))]
                                      ELSE sent
                           /\ UNCHANGED <<dedup, players, tokens, pc, alive, bev, it,
                                          dead, accepted, bsnap>>
                      ELSE \E result \in Results(command, payload) :
                           LET ps == ApplyPlayers(players, client_id, command, payload)
                               event == MakeEvent(seq', event_id, command,
                                           EventPayload(ps, client_id, command,
                                                        payload, result))
                           IN  /\ players' = ps
                               /\ tokens' = ApplyTokens(tokens, command, payload)
                               /\ dedup' = record(dedup, key, seq')
                               /\ accepted' = Append(accepted,
                                       [client_id |-> client_id, event |-> event])
                               /\ Iterate(w, reg, dict_iter(reg), event, <<>>,
                                          client_id, dict_items(reg))

(* broadcast resumes from a send and takes the next turn of its loop *)
BroadcastStep(w) ==
    /\ pc[w] = "bcast"
    /\ Iterate(w, clients, it[w], bev[w], dead[w], registered[w], bsnap[w])
    /\ last' = NoLast
    /\ UNCHANGED <<run, seq, dedup, players, tokens, registered, accepted>>

Next ==
    \E w \in Conns :
        \/ Connect(w)
        \/ Die(w)
        \/ Close(w)
        \/ BroadcastStep(w)
        \/ \E raw \in Frames(run, w) : RecvInvalid(w, raw)
        \/ \E raw \in Frames(run, w) : RecvCommand(w, raw)

Spec == Init /\ [][Next]_vars
SpecOrder == InitOrder /\ [][Next]_vars
SpecGame == InitGame /\ [][Next]_vars
SpecReject == InitReject /\ [][Next]_vars
SpecEnvelope == InitEnvelope /\ [][Next]_vars
SpecBoard == InitBoard /\ [][Next]_vars
SpecDice == InitDice /\ [][Next]_vars
SpecKeys == InitKeys /\ [][Next]_vars

-----------------------------------------------------------------------------
(* Vocabulary of the properties *)

EventsOf(out) == SelectSeq(out, LAMBDA m : m.type = "event")
ErrorsOf(out) == SelectSeq(out, LAMBDA m : m.type = "error")

PairOf(a) == <<a.client_id, a.event.event_id>>

(* The step is a handler reading a frame of class c *)
Reads(c) == last'.class = c /\ last'.conn \in Conns

(* The step accepts a command: its event joins the log *)
Accepts == Len(accepted') = Len(accepted) + 1

Accepted == accepted'[Len(accepted')]

(* The command name and payload of a frame that decodes to an envelope *)
CommandOf(raw) == raw.obj.command.v
PayloadOf(raw) == raw.obj.payload.v

(* The accepted MOVE_TOKEN commands of token k, by place in the log *)
MovesOf(k) ==
    {i \in 1..Len(accepted) :
        /\ accepted[i].event.event_type = <<"MOVE_TOKEN">>
        /\ accepted[i].event.payload.token_id = k}

Latest(I) == CHOOSE i \in I : \A j \in I : j <= i

TokenIds == {<<"t">>, <<"u">>}

(* The accepted command in place n of the seq order *)
BySeq(n) ==
    accepted[CHOOSE i \in 1..Len(accepted) :
        Cardinality({j \in 1..Len(accepted) :
            accepted[j].event.seq < accepted[i].event.seq}) = n - 1]

(* One accepted command applied to the players, as the spec defines it *)
ReplayPlayers(ps, a) ==
    LET m == a.event.payload
    IN  CASE a.event.event_type = <<"JOIN">> ->
                IF a.client_id \in DOMAIN ps
                THEN [ps EXCEPT ![a.client_id].name = m.name]
                ELSE (a.client_id :> [client_id |-> a.client_id, name |-> m.name,
                                      hp |-> 20]) @@ ps
          [] a.event.event_type = <<"SET_HP">> ->
                LET old == IF m.target_id \in DOMAIN ps
                           THEN ps[m.target_id]
                           ELSE [client_id |-> m.target_id, name |-> m.target_id,
                                 hp |-> 20]
                IN  (m.target_id :> [old EXCEPT !.hp = Max(0, old.hp + m.delta)]) @@ ps
          [] OTHER -> ps

(* One accepted command applied to the tokens *)
ReplayTokens(ts, a) ==
    LET m == a.event.payload
    IN  IF a.event.event_type = <<"MOVE_TOKEN">>
        THEN (m.token_id :> [x |-> m.x, y |-> m.y]) @@ ts
        ELSE ts

(* The first n accepted commands applied one at a time to the empty state *)
RECURSIVE Replay(_)
Replay(n) ==
    IF n = 0 THEN [players |-> <<>>, tokens |-> <<>>]
    ELSE LET g == Replay(n - 1)
         IN  [players |-> ReplayPlayers(g.players, BySeq(n)),
              tokens |-> ReplayTokens(g.tokens, BySeq(n))]

(* The dedup key of an accepted command *)
KeyOf(a) == dedup_key(a.client_id, a.event.event_id)

(* The (client_id, event_id) pairs accepted so far *)
AcceptedPairs == {PairOf(accepted[i]) : i \in 1..Len(accepted)}

RawPair(raw) == <<raw.obj.client_id.v, raw.obj.event_id.v>>

(* The step is handler w reading the command frame raw *)
Handles(w, raw) ==
    /\ last'.conn = w
    /\ DecodeError(raw) = NoError
    /\ last'.pair = RawPair(raw)
    /\ RecvCommand(w, raw)

(* The step ends the broadcast of handler w, normally or by an exception *)
EndsBroadcast(w) == pc[w] = "bcast" /\ pc'[w] # "bcast"

(* The step ends handler w *)
EndsHandler(w) == pc[w] # "done" /\ pc'[w] = "done"

-----------------------------------------------------------------------------
(* C1: the seq values of the events broadcast so far are exactly 1..N, in  *)
(* acceptance order; a command that fails its validation consumes none.    *)
C1_SeqGapFree ==
    \A i \in 1..Len(accepted) : accepted[i].event.seq = i

(* C2: for every (client_id, event_id) pair at most one event is ever      *)
(* broadcast, and the game state changes for it at most once: a step that  *)
(* changes players or tokens is the acceptance of a pair not accepted yet. *)
C2_UniquePairs ==
    \A i, j \in 1..Len(accepted) : PairOf(accepted[i]) = PairOf(accepted[j]) => i = j

C2_AtMostOnce ==
    /\ []C2_UniquePairs
    /\ [][(players' # players \/ tokens' # tokens) =>
            /\ Len(accepted') = Len(accepted) + 1
            /\ SubSeq(accepted', 1, Len(accepted)) = accepted
            /\ \A i \in 1..Len(accepted) :
                  PairOf(accepted[i]) # PairOf(accepted'[Len(accepted')])]_vars

(* a pair is submitted again, on the other connection, after another       *)
(* command was accepted in between                                         *)
C2_Witness ==
    /\ last.class = "good"
    /\ \E i \in 1..Len(accepted) :
          /\ PairOf(accepted[i]) = last.pair
          /\ accepted[i].event.seq < seq
    /\ Len(accepted) = 2
    /\ players[<<"z">>].hp = DefaultHp + 14

(* C3: no connection is sent the event with the larger seq before the      *)
(* event with the smaller seq, also when two broadcasts overlap.           *)
C3_InOrder ==
    \A w \in Conns :
        \A i, j \in 1..Len(EventsOf(sent[w])) :
            i < j => EventsOf(sent[w])[i].seq <= EventsOf(sent[w])[j].seq

(* C4: a command whose pair is already recorded in the dedup map leaves    *)
(* the seq counter, the dedup map and the game state unchanged and sends   *)
(* nothing to any connection.                                              *)
C4_DuplicateIsNoOp ==
    [][(Reads("good") \/ Reads("badcmd")) /\
       dedup_key(last'.pair[1], last'.pair[2]) \in DOMAIN dedup =>
          /\ seq' = seq
          /\ dedup' = dedup
          /\ players' = players
          /\ tokens' = tokens
          /\ sent' = sent
          /\ accepted' = accepted
          /\ pc' = pc]_vars

(* a SET_HP is submitted again after its pair was accepted and another     *)
(* command has moved the counter on                                        *)
C4_Witness ==
    /\ last.class = "good"
    /\ dedup_key(last.pair[1], last.pair[2]) \in DOMAIN dedup
    /\ dedup[dedup_key(last.pair[1], last.pair[2])] < seq
    /\ \E i \in 1..Len(accepted) :
          /\ PairOf(accepted[i]) = last.pair
          /\ accepted[i].event.event_type = <<"SET_HP">>

(* C5: a command that fails its own validation, or has an unrecognized     *)
(* name, leaves players, tokens and the dedup map unchanged, sends no      *)
(* event, and sends exactly one error, to the submitting connection only;  *)
(* no dedup entry is written for it, so the dedup map holds exactly the    *)
(* keys of the accepted commands.                                          *)
C5_DedupIsAccepted ==
    DOMAIN dedup =
        {dedup_key(accepted[i].client_id, accepted[i].event.event_id) :
            i \in 1..Len(accepted)}

C5_RejectedCommand ==
    /\ []C5_DedupIsAccepted
    /\ [][Reads("badcmd") /\
          dedup_key(last'.pair[1], last'.pair[2]) \notin DOMAIN dedup =>
             /\ players' = players
             /\ tokens' = tokens
             /\ dedup' = dedup
             /\ accepted' = accepted
             /\ pc' = pc
             /\ \A w \in Conns \ {last'.conn} : sent'[w] = sent[w]
             /\ Len(sent'[last'.conn]) = Len(sent[last'.conn]) + 1
             /\ SubSeq(sent'[last'.conn], 1, Len(sent[last'.conn])) = sent[last'.conn]
             /\ sent'[last'.conn][Len(sent'[last'.conn])].type = "error"]_vars

(* a command is rejected while both connections are registered: the other  *)
(* connection has had its command accepted and has received nothing since  *)
C5_Witness ==
    /\ last.class = "badcmd"
    /\ seq = 2
    /\ Len(accepted) = 1
    /\ dict_len(clients) = 2
    /\ \A w \in Conns : alive[w] /\ pc[w] = "recv"
    /\ Len(ErrorsOf(sent[last.conn])) = 1
    /\ \A w \in Conns \ {last.conn} : ErrorsOf(sent[w]) = <<>> /\ Len(sent[w]) = 1

(* C6: a frame that does not decode or fails the envelope validation       *)
(* changes none of seq, the dedup map, the game state or the registry,     *)
(* produces no broadcast, and is answered by one error on the connection   *)
(* it arrived on, whose receive loop goes on.                              *)
C6_BadEnvelope ==
    [][Reads("badenv") =>
          /\ UNCHANGED <<seq, dedup, players, tokens, clients, registered, accepted,
                         pc, alive, bev, it, dead>>
          /\ pc'[last'.conn] = "recv"
          /\ \A w \in Conns \ {last'.conn} : sent'[w] = sent[w]
          /\ Len(sent'[last'.conn]) = Len(sent[last'.conn]) + 1
          /\ SubSeq(sent'[last'.conn], 1, Len(sent[last'.conn])) = sent[last'.conn]
          /\ sent'[last'.conn][Len(sent'[last'.conn])].type = "error"]_vars

(* a connection that has had a command accepted reads a bad frame while    *)
(* the other connection is open                                            *)
C6_Witness ==
    /\ last.class = "badenv"
    /\ seq = 1
    /\ DOMAIN players # {}
    /\ \A w \in Conns : alive[w] /\ pc[w] = "recv"
    /\ Len(sent[last.conn]) = 2
    /\ sent[last.conn][1].type = "event"
    /\ sent[last.conn][2].type = "error"
    /\ \A w \in Conns \ {last.conn} : sent[w] = <<>>

(* C7: when a send of a broadcast fails, the event is still sent to every  *)
(* other registered connection, exactly the entries whose send failed are  *)
(* removed from the registry, and the command's dedup entry and state      *)
(* mutation remain.                                                        *)
C7_FailureIsolated ==
    [][\A w \in Conns : EndsBroadcast(w) /\ dead[w] # <<>> =>
          /\ \A e \in bsnap[w] :
                e \in dict_items(clients) /\ alive[e.ws] =>
                    bev[w] \in Range(sent'[e.ws])
          /\ \A e \in dict_items(clients) :
                e \in dict_items(clients') <=> e.cid \notin Range(dead[w])
          /\ dedup' = dedup /\ players' = players /\ tokens' = tokens]_vars

(* C8: the registry maps a client_id to the connection that declared it    *)
(* last, and to that one only; the end of a handler never removes an entry *)
(* that points at another connection.                                      *)
C8_UniqueKeys ==
    \A i, j \in 1..Len(clients) :
        clients[i] # Dummy /\ clients[i].cid = clients[j].cid => i = j

C8_StaleClose ==
    /\ []C8_UniqueKeys
    /\ [][/\ Reads("good") \/ Reads("badcmd") =>
                dict_get(clients', last'.pair[1]) = last'.conn
          /\ \A w \in Conns : EndsHandler(w) =>
                \A e \in dict_items(clients) :
                    e.ws # w => e \in dict_items(clients')]_vars

(* the first of two connections that declared the same client_id has just  *)
(* closed, and the registry still maps the client_id to the second         *)
C8_Witness ==
    /\ last.class = "close"
    /\ registered[last.conn] # NoCid
    /\ \E v \in Conns \ {last.conn} :
          /\ dict_get(clients, registered[last.conn]) = v
          /\ registered[v] = registered[last.conn]
          /\ alive[v]

(* C9: every player has hp >= 0 in every reachable state.                  *)
C9_HpNonNegative ==
    \A c \in DOMAIN players : players[c].hp >= 0

(* a joined player was hit for more than its hp and stands at 0 *)
C9_Witness ==
    /\ <<"a">> \in DOMAIN players
    /\ players[<<"a">>].name = <<"x">>
    /\ players[<<"a">>].hp = 0
    /\ Len(accepted) = 2

(* C10: an accepted SET_HP with target t and delta d stores                *)
(* hp(t) = max(0, old + d), old being the target's hp or 20 for a target   *)
(* that did not exist, which is created under the name t; the event's      *)
(* new_hp is the stored hp; hp has no ceiling.                             *)
C10_SetHp ==
    [][Len(accepted') = Len(accepted) + 1 /\
       accepted'[Len(accepted')].event.event_type = <<"SET_HP">> =>
          LET e == accepted'[Len(accepted')].event
              t == e.payload.target_id
              d == e.payload.delta
              old == IF t \in DOMAIN players THEN players[t].hp ELSE 20
          IN  /\ t \in DOMAIN players'
              /\ players'[t].hp = Max(0, old + d)
              /\ e.payload.new_hp = players'[t].hp
              /\ t \notin DOMAIN players =>
                    players'[t].name = t /\ players'[t].client_id = t]_vars

(* a target created by SET_HP has been raised twice, above the default *)
C10_Witness ==
    /\ <<"z">> \in DOMAIN players
    /\ players[<<"z">>].name = <<"z">>
    /\ players[<<"z">>].hp = 34
    /\ Len(accepted) = 2
    /\ accepted[2].event.payload.new_hp = 34

(* C11: the stored position of a token is the (x, y) of the most recently  *)
(* accepted MOVE_TOKEN of that token, both coordinates of one command, and *)
(* a token has an entry if and only if a MOVE_TOKEN of it was accepted.    *)
C11_LatestPosition ==
    \A k \in TokenIds \cup DOMAIN tokens :
        /\ k \in DOMAIN tokens <=> MovesOf(k) # {}
        /\ MovesOf(k) # {} =>
              LET m == accepted[Latest(MovesOf(k))].event.payload
              IN  tokens[k] = [x |-> m.x, y |-> m.y]

C11_MoveToken ==
    /\ []C11_LatestPosition
    /\ [][\A w \in Conns : \A raw \in Frames(run, w) :
            Accepts /\ Handles(w, raw) /\ CommandOf(raw) = <<"MOVE_TOKEN">> =>
                LET p == PayloadOf(raw)
                IN  /\ p.token_id.v \in DOMAIN tokens'
                    /\ tokens'[p.token_id.v] = [x |-> p.x.v, y |-> p.y.v]
                    /\ \A k \in DOMAIN tokens \ {p.token_id.v} :
                          k \in DOMAIN tokens' /\ tokens'[k] = tokens[k]]_vars

(* token t was moved to (0, 1) and then to (1, 0), and stands at (1, 0) *)
C11_Witness ==
    /\ Len(accepted) = 2
    /\ MovesOf(<<"t">>) = {1, 2}
    /\ accepted[1].event.payload.x = 0 /\ accepted[1].event.payload.y = 1
    /\ tokens[<<"t">>] = [x |-> 1, y |-> 0]

(* C12: a ROLL_DICE that is no retransmission is accepted exactly when     *)
(* payload.sides is an integer with 2 <= sides <= 10000, and its event     *)
(* carries the sides requested and a result with 1 <= result <= sides.     *)
C12_RollsInRange ==
    \A i \in 1..Len(accepted) :
        accepted[i].event.event_type = <<"ROLL_DICE">> =>
            LET m == accepted[i].event.payload
            IN  2 <= m.sides /\ m.sides <= 10000 /\ 1 <= m.result /\ m.result <= m.sides

C12_RollDice ==
    /\ []C12_RollsInRange
    /\ [][\A w \in Conns : \A raw \in Frames(run, w) :
            /\ Handles(w, raw)
            /\ CommandOf(raw) = <<"ROLL_DICE">>
            /\ RawPair(raw) \notin AcceptedPairs
            => LET sd == PayloadOf(raw).sides
                   ok == sd.t = "int" /\ 2 <= sd.v /\ sd.v <= 10000
               IN  /\ Accepts <=> ok
                   /\ Accepts =>
                         /\ Accepted.event.event_type = <<"ROLL_DICE">>
                         /\ Accepted.event.payload.sides = sd.v
                         /\ Accepted.event.payload.result \in 1..sd.v
                   /\ ~Accepts => accepted' = accepted /\ dedup' = dedup]_vars

(* a roll was rejected, and then a roll of 10000 sides came up 10000 *)
C12_Witness ==
    /\ Len(accepted) = 1
    /\ seq = 2
    /\ accepted[1].event.seq = 2
    /\ accepted[1].event.event_type = <<"ROLL_DICE">>
    /\ accepted[1].event.payload.sides = 10000
    /\ accepted[1].event.payload.result = 10000

(* C13: a broadcast never ends in an exception that terminates the handler *)
(* it runs in, and when it ends it has attempted the delivery to every     *)
(* entry that was registered when it started and still is, whatever other  *)
(* handlers, disconnects and broadcasts did to the registry meanwhile.     *)
C13_BroadcastCompletes ==
    [][\A w \in Conns : pc[w] = "bcast" =>
          /\ pc'[w] # "done"
          /\ pc'[w] = "recv" =>
                \A e \in bsnap[w] : e \in dict_items(clients) =>
                    \/ bev[w] \in Range(sent[e.ws])
                    \/ e.cid \in Range(dead[w])]_vars

(* C14: the pruning step of a broadcast removes a client_id only while the *)
(* registry maps it to the connection whose send failed.  A send fails     *)
(* only on a closed connection and a closed connection never reopens, so   *)
(* no entry that points at an open connection is removed by the pruning.   *)
C14_PruneKeepsCurrent ==
    [][\A w \in Conns : pc[w] = "bcast" /\ pc'[w] = "recv" =>
          \A e \in dict_items(clients) :
              alive[e.ws] => e \in dict_items(clients')]_vars

(* C15: GameState is the result of applying the accepted commands one at a *)
(* time, in increasing seq order, to the empty state; the step that        *)
(* accepts a command checks the dedup map, reserves the seq, mutates the   *)
(* state and records the dedup entry of that one command.                  *)
C15_StateIsReplay ==
    /\ players = Replay(Len(accepted)).players
    /\ tokens = Replay(Len(accepted)).tokens

C15_Atomic ==
    /\ []C15_StateIsReplay
    /\ [][\A w \in Conns : \A raw \in Frames(run, w) :
            Accepts /\ Handles(w, raw) =>
                /\ RawPair(raw) = PairOf(Accepted)
                /\ Accepted.event.event_type = CommandOf(raw)
                /\ seq' = seq + 1
                /\ Accepted.event.seq = seq'
                /\ SubSeq(accepted', 1, Len(accepted)) = accepted
                /\ DOMAIN dedup' \ DOMAIN dedup =
                      {dedup_key(RawPair(raw)[1], RawPair(raw)[2])}
                /\ players' = ReplayPlayers(players, Accepted)
                /\ tokens' = ReplayTokens(tokens, Accepted)]_vars

(* a JOIN and then a SET_HP of more than the player's hp were accepted on  *)
(* two connections, the second while the first was still being broadcast   *)
C15_Witness ==
    /\ \A w \in Conns : pc[w] = "bcast"
    /\ Len(accepted) = 2
    /\ accepted[1].event.event_type = <<"JOIN">>
    /\ accepted[2].event.event_type = <<"SET_HP">>
    /\ players[<<"a">>].name = <<"x">>
    /\ players[<<"a">>].hp = 0

(* C16: the seq values of the events are at least 1, pairwise distinct and *)
(* strictly increasing in acceptance order; the counter never decreases;   *)
(* each dedup entry maps its key to the seq of the one event broadcast for *)
(* that key, and is never overwritten or removed.                          *)
C16_SeqAndDedup ==
    /\ \A i \in 1..Len(accepted) :
          /\ 1 <= accepted[i].event.seq
          /\ accepted[i].event.seq <= seq
          /\ KeyOf(accepted[i]) \in DOMAIN dedup
          /\ dedup[KeyOf(accepted[i])] = accepted[i].event.seq
    /\ \A i, j \in 1..Len(accepted) :
          i < j => accepted[i].event.seq < accepted[j].event.seq
    /\ \A k \in DOMAIN dedup :
          Cardinality({i \in 1..Len(accepted) : KeyOf(accepted[i]) = k}) = 1

C16_Monotonic ==
    /\ []C16_SeqAndDedup
    /\ [][/\ seq' >= seq
          /\ \A k \in DOMAIN dedup : k \in DOMAIN dedup' /\ dedup'[k] = dedup[k]]_vars

(* two clients have had one command each accepted and broadcast: the       *)
(* events carry seq 1 and 2 and the dedup map holds both                   *)
C16_Witness ==
    /\ Len(accepted) = 2
    /\ accepted[1].client_id # accepted[2].client_id
    /\ Cardinality(DOMAIN dedup) = 2
    /\ dedup[KeyOf(accepted[1])] = 1
    /\ dedup[KeyOf(accepted[2])] = 2
    /\ \A w \in Conns : pc[w] = "recv"

(* C17: once the handler of a connection has finished, no registry entry   *)
(* maps any client_id to that connection, also when the connection sent    *)
(* valid commands under more than one client_id.                           *)
C17_NoEntryAfterClose ==
    \A w \in Conns : pc[w] = "done" =>
        \A e \in dict_items(clients) : e.ws # w

(* C18: every event is sent to every connection at most once, also to a    *)
(* connection that is the registry value of several client_ids.            *)
C18_SentOnce ==
    \A w \in Conns :
        \A i, j \in 1..Len(sent[w]) :
            sent[w][i].type = "event" /\ sent[w][i] = sent[w][j] => i = j

(* C19: two commands with different (client_id, event_id) pairs are never  *)
(* duplicates of each other: a command in the domain of its command whose  *)
(* pair was not accepted before is accepted, whatever other pairs were,    *)
(* also when the identifiers contain the ':' character.                    *)
C19_NewPairIsAccepted ==
    [][\A w \in Conns : \A raw \in Frames(run, w) :
          /\ ~Accepts
          /\ Handles(w, raw)
          /\ CommandError(CommandOf(raw), PayloadOf(raw)) = NoError
          => RawPair(raw) \in AcceptedPairs]_vars

(* C20: an accepted command changes only its own part of GameState: CHAT   *)
(* and ROLL_DICE nothing; MOVE_TOKEN the entry of its token_id only; JOIN  *)
(* creates the sender's player with hp 20 or changes only its name; SET_HP *)
(* changes only the hp of its target, which it creates if absent; no step  *)
(* removes a player or a token, and no other step changes either.          *)
C20_Frame ==
    [][/\ DOMAIN players \subseteq DOMAIN players'
       /\ DOMAIN tokens \subseteq DOMAIN tokens'
       /\ ~Accepts => players' = players /\ tokens' = tokens
       /\ \A w \in Conns : \A raw \in Frames(run, w) :
             Accepts /\ Handles(w, raw) =>
                LET c == CommandOf(raw)
                    p == PayloadOf(raw)
                    cid == RawPair(raw)[1]
                IN  CASE c \in {<<"CHAT">>, <<"ROLL_DICE">>} ->
                            players' = players /\ tokens' = tokens
                      [] c = <<"MOVE_TOKEN">> ->
                            /\ players' = players
                            /\ DOMAIN tokens' = DOMAIN tokens \cup {p.token_id.v}
                            /\ \A k \in DOMAIN tokens \ {p.token_id.v} :
                                  tokens'[k] = tokens[k]
                      [] c = <<"JOIN">> ->
                            /\ tokens' = tokens
                            /\ DOMAIN players' = DOMAIN players \cup {cid}
                            /\ \A k \in DOMAIN players \ {cid} : players'[k] = players[k]
                            /\ IF cid \in DOMAIN players
                               THEN /\ players'[cid].hp = players[cid].hp
                                    /\ players'[cid].client_id = players[cid].client_id
                               ELSE /\ players'[cid].hp = 20
                                    /\ players'[cid].client_id = cid
                      [] c = <<"SET_HP">> ->
                            /\ tokens' = tokens
                            /\ DOMAIN players' = DOMAIN players \cup {p.target_id.v}
                            /\ \A k \in DOMAIN players \ {p.target_id.v} :
                                  players'[k] = players[k]
                            /\ p.target_id.v \in DOMAIN players =>
                                  /\ players'[p.target_id.v].name =
                                        players[p.target_id.v].name
                                  /\ players'[p.target_id.v].client_id =
                                        players[p.target_id.v].client_id]_vars

(* a player created by SET_HP and brought to hp 0 has joined under a name  *)
(* and kept its hp                                                         *)
C20_Witness ==
    /\ Len(accepted) = 2
    /\ accepted[1].event.event_type = <<"SET_HP">>
    /\ accepted[2].event.event_type = <<"JOIN">>
    /\ players[<<"a">>] = [client_id |-> <<"a">>, name |-> <<"y">>, hp |-> 0]

====
